---- MODULE Spec2Model ----
(***************************************************************************)
(* Job lifecycle of backend/controllers/text.controller.js: submission     *)
(* (processText, uploadFile), the background processor                     *)
(* (processJobInBackground and its PythonShell.run completion callback),   *)
(* getStatus, getResults and cancelJob, over the ProcessingJob collection  *)
(* and the staging files.  Every await of the code that touches the        *)
(* collection or the staging files is a separate step, so that handlers    *)
(* and background executions interleave as they do on the event loop.      *)
(***************************************************************************)
EXTENDS Integers, Sequences, FiniteSets, TLC

\* ---------------------------------------------------------------- bounds
MaxJobs == 2        \* job documents the collection can hold
MaxApiJobs == 1     \* job documents created when the responses are observed
NumUsers == 2       \* authenticated callers
MaxTime == 1        \* values Date.now() can take (0..MaxTime)
MaxPage == 2        \* page values asked of getResults (1..MaxPage)
MaxLimit == 2       \* limit values asked of getResults (1..MaxLimit)
MaxResults == 3     \* records of the scorer payload of the paginated job
MaxPageAsked == 5   \* highest page asked of the paginated job
MaxLimitAsked == 3  \* highest limit asked of the paginated job
MaxBelowZero == 2   \* page and limit are asked from -MaxBelowZero upward
MaxRuns == 3        \* runs of transformMLResults observed side by side
MaxRecords == 4     \* records of a scorer output given to transformMLResults alone

JobIds == 1..MaxJobs
ApiJobIds == 1..MaxApiJobs
UserIds == 1..NumUsers

\* ------------------------------------------------------------ job records
Statuses == {"pending", "processing", "completed", "failed", "cancelled"}
TerminalStatuses == {"completed", "failed", "cancelled"}

NoJob == [status |-> "absent"]

\* errorMessage values: the message prefix the code writes
NoMessage == "unset"
CancelledMessage == "Cancelled by user"
MLErrorMessage == "ML Processing Error: "
ResultsErrorMessage == "Results processing error: "
SetupErrorMessage == "Setup error: "

Unset == -1

\* the sentimentDistribution of a job that has none yet
NoDistribution == [positive |-> Unset, neutral |-> Unset, negative |-> Unset]

DirectPath(t) == <<"direct_input", t>>
UploadPath(j) == <<"upload", j>>
\* the path multer gave the k-th file of the batch request
BatchPath(k) == <<"batch", k>>

\* batchId: the value of `batch_ml_${Date.now()}_${userId}`, or none
BatchId(t, u) == [at |-> t, userId |-> u]
NoBatchId == BatchId(Unset, 0)

\* a variant of NewJob: the record is created with progress 50
NewJobHalfway(u, path) ==
  [userId |-> u, filePath |-> path, status |-> "pending",
   progress |-> 50, errorMessage |-> NoMessage,
   startedAt |-> FALSE, completedAt |-> FALSE, failedAt |-> FALSE,
   cancelledAt |-> FALSE, totalLines |-> Unset, results |-> <<>>,
   sentimentDistribution |-> NoDistribution, batchId |-> NoBatchId]

\* a variant of NewJob: the record is created already processing
NewJobProcessing(u, path) ==
  [userId |-> u, filePath |-> path, status |-> "processing",
   progress |-> 0, errorMessage |-> NoMessage,
   startedAt |-> FALSE, completedAt |-> FALSE, failedAt |-> FALSE,
   cancelledAt |-> FALSE, totalLines |-> Unset, results |-> <<>>,
   sentimentDistribution |-> NoDistribution, batchId |-> NoBatchId]

\* new ProcessingJob({... status: 'pending' ...}) with the schema defaults
NewJob(u, path) ==
  [userId |-> u, filePath |-> path, status |-> "pending",
   progress |-> 0, errorMessage |-> NoMessage,
   startedAt |-> FALSE, completedAt |-> FALSE, failedAt |-> FALSE,
   cancelledAt |-> FALSE, totalLines |-> Unset, results |-> <<>>,
   sentimentDistribution |-> NoDistribution, batchId |-> NoBatchId]

\* a variant of NewBatchJob: the batch id is not stored
NewBatchJobUnmarked(u, path, id) == NewJob(u, path)

\* processBatch, lines 552-562: the job of one file of a batch
NewBatchJob(u, path, id) == [NewJob(u, path) EXCEPT !.batchId = id]

\* a patch applied to a document: the fields named are overwritten
Merge(doc, patch) ==
  [f \in DOMAIN doc |-> IF f \in DOMAIN patch THEN patch[f] ELSE doc[f]]

\* a variant of findByIdAndUpdate: the patch is applied to every document
updateMany(store, id, patch) ==
  [i \in DOMAIN store |-> IF store[i] # NoJob THEN Merge(store[i], patch) ELSE store[i]]

\* Model.findByIdAndUpdate(id, patch): no filter but the id
findByIdAndUpdate(store, id, patch) ==
  IF store[id] = NoJob THEN store ELSE [store EXCEPT ![id] = Merge(@, patch)]

\* a variant of CancelFilter: the status is not part of the filter
CancelFilterAnyStatus(doc, u) == doc # NoJob /\ doc.userId = u

\* a variant of OwnerFilter: the owner is not part of the filter
OwnerFilterAnyUser(doc, u) == doc # NoJob

\* the filter of cancelJob's findOneAndUpdate
CancelFilter(doc, u) ==
  doc # NoJob /\ doc.userId = u /\ doc.status \in {"pending", "processing"}

\* the filter of getStatus / getResults' findOne
OwnerFilter(doc, u) == doc # NoJob /\ doc.userId = u

\* a variant of MLFailedPatch: no errorMessage is written
MLFailedPatchSilent == [status |-> "failed", failedAt |-> TRUE, progress |-> 0]

\* a variant of CancelPatch: no errorMessage is written
CancelPatchNoMessage == [status |-> "cancelled", cancelledAt |-> TRUE, progress |-> 0]

\* a variant of ResultsFailedPatch: progress is reset to 0
ResultsFailedPatchZero ==
  [status |-> "failed", errorMessage |-> ResultsErrorMessage, failedAt |-> TRUE,
   progress |-> 0]

\* a variant of SetupFailedPatch: the message carries the scorer prefix
SetupFailedPatchAsScorer ==
  [status |-> "failed", errorMessage |-> MLErrorMessage, failedAt |-> TRUE,
   progress |-> 0]

ProcessingPatch == [status |-> "processing", startedAt |-> TRUE, progress |-> 20]
MLFailedPatch ==
  [status |-> "failed", errorMessage |-> MLErrorMessage, failedAt |-> TRUE, progress |-> 0]
ResultsFailedPatch ==
  [status |-> "failed", errorMessage |-> ResultsErrorMessage, failedAt |-> TRUE,
   progress |-> 50]
SetupFailedPatch ==
  [status |-> "failed", errorMessage |-> SetupErrorMessage, failedAt |-> TRUE,
   progress |-> 0]
CancelPatch ==
  [status |-> "cancelled", cancelledAt |-> TRUE, progress |-> 0,
   errorMessage |-> CancelledMessage]

\* ------------------------------------------------------ scorer payloads
\* a raw record of the scorer: sentiment (or "none"), confidence and score as
\* numbers of hundredths, Unset when the record carries none; the numbers
\* derived from them are in hundredths too
RawScored(s, c, sc) == [sentiment |-> s, confidence |-> c, score |-> sc]
Raw(s, c) == RawScored(s, c, Unset)

\* v || 0 on a number or undefined
OrZero(v) == IF v = Unset THEN 0 ELSE v

\* a quotient a / b of two numbers, kept as the pair; the number 0 is 0 / 1
Quotient(a, b) == [sum |-> a, count |-> b]
Zero == Quotient(0, 1)
SameNumber(p, q) == p.sum * q.count = q.sum * p.count

RECURSIVE Sum(_)
Sum(numbers) == IF numbers = <<>> THEN 0 ELSE Head(numbers) + Sum(Tail(numbers))

\* a variant of TransformRecord: the line numbers start at 0
TransformRecordFromZero(item, index, at) ==
  [lineNumber |-> index - 1,
   sentimentScore |-> OrZero(item.confidence) * 100,
   sentimentLabel |-> IF item.sentiment = "none" THEN "neutral" ELSE item.sentiment,
   confidence |-> OrZero(item.confidence),
   metadata |-> [processedAt |-> at]]

\* transformMLResults, per record; at is the value of new Date() when it runs
TransformRecord(item, index, at) ==
  [lineNumber |-> index,
   sentimentScore |-> OrZero(item.confidence) * 100,
   sentimentLabel |-> IF item.sentiment = "none" THEN "neutral" ELSE item.sentiment,
   confidence |-> OrZero(item.confidence),
   metadata |-> [processedAt |-> at]]

transformMLResults(mlResults, at) ==
  [i \in 1..Len(mlResults) |-> TransformRecord(mlResults[i], i, at)]

\* r => r.confidence: undefined and 0 are both falsy
Truthy(v) == v # Unset /\ v # 0

\* a variant of averageSentiment: the sum is divided by the number of records
\* that carry a confidence
averageSentimentOfScored(mlResults, at) ==
  LET scored == SelectSeq(mlResults, LAMBDA r : Truthy(r.confidence))
      scores == [i \in 1..Len(mlResults) |->
                   transformMLResults(mlResults, at)[i].sentimentScore]
  IN IF Len(scored) > 0 THEN Quotient(Sum(scores), Len(scored)) ELSE Zero

\* transformMLResults, lines 128-134: the mean of the confidences that pass
\* the filter, 0 when none does
averageConfidence(mlResults) ==
  LET kept == SelectSeq(mlResults, LAMBDA r : Truthy(r.confidence))
      confidenceScores == [i \in 1..Len(kept) |-> kept[i].confidence]
  IN IF Len(confidenceScores) > 0
       THEN Quotient(Sum(confidenceScores), Len(confidenceScores))
       ELSE Zero

\* transformMLResults, lines 136-138: the mean of the results' scores, 0 when
\* there is no result
averageSentiment(mlResults, at) ==
  LET transformedResults == transformMLResults(mlResults, at)
      scores == [i \in 1..Len(transformedResults) |->
                   transformedResults[i].sentimentScore]
  IN IF Len(transformedResults) > 0
       THEN Quotient(Sum(scores), Len(transformedResults))
       ELSE Zero

\* a variant of sentimentDistribution: a record without sentiment is not counted
sentimentDistributionLabelled(mlResults) ==
  [positive |-> Cardinality({i \in 1..Len(mlResults) : mlResults[i].sentiment = "positive"}),
   neutral |-> Cardinality({i \in 1..Len(mlResults) : mlResults[i].sentiment = "neutral"}),
   negative |-> Cardinality({i \in 1..Len(mlResults) : mlResults[i].sentiment = "negative"})]

\* transformMLResults, lines 122-126: the counts are taken on the raw records;
\* "none" is a record without sentiment (!r.sentiment)
sentimentDistribution(mlResults) ==
  [positive |-> Cardinality({i \in 1..Len(mlResults) : mlResults[i].sentiment = "positive"}),
   neutral |-> Cardinality({i \in 1..Len(mlResults) :
                             \/ mlResults[i].sentiment = "neutral"
                             \/ mlResults[i].sentiment = "none"}),
   negative |-> Cardinality({i \in 1..Len(mlResults) : mlResults[i].sentiment = "negative"})]

\* a variant of CompletedPatch: the results are written, the status is not
CompletedPatchKeepsStatus(mlResults, at) ==
  [progress |-> 100, completedAt |-> TRUE,
   totalLines |-> Len(transformMLResults(mlResults, at)),
   results |-> transformMLResults(mlResults, at)]

\* a variant of CompletedPatch: totalLines is not written
CompletedPatchNoCount(mlResults, at) ==
  [status |-> "completed", progress |-> 100, completedAt |-> TRUE,
   sentimentDistribution |-> sentimentDistribution(mlResults),
   results |-> transformMLResults(mlResults, at)]

CompletedPatch(mlResults, at) ==
  [status |-> "completed", progress |-> 100, completedAt |-> TRUE,
   totalLines |-> Len(transformMLResults(mlResults, at)),
   sentimentDistribution |-> sentimentDistribution(mlResults),
   results |-> transformMLResults(mlResults, at)]

\* what a channel (the output file, the captured standard output) holds
Absent == [kind |-> "absent"]
Garbage == [kind |-> "garbage"]
Json(ok, rs) == [kind |-> "json", success |-> ok, results |-> rs]

Payloads ==
  {Json(FALSE, <<>>), Json(TRUE, <<>>),
   Json(TRUE, <<Raw("positive", 90), Raw("none", 0)>>)}

FileContents == {Absent, Garbage} \cup Payloads
StdoutContents == {Absent, Garbage} \cup Payloads

VARIABLES
  jobs,          \* the ProcessingJob collection: JobIds -> document or NoJob
  files,         \* input staging files that exist (set of paths)
  outFile,       \* the jobs whose results_<jobId>.json exists
  pc,            \* position of each job's background execution
  cancelling,    \* jobs with a cancelJob request between its update and its cleanup
  response,      \* the response the last handler step sent
  now,           \* Date.now()
  existsSyncOk,  \* whether fs.existsSync can be called on the fs binding
  transformRuns, \* the runs of transformMLResults observed: input, time, output
  keywordRuns,   \* the runs of extractKeywords observed: text, keywords
  batch          \* the processBatch request being served

vars ==
  <<jobs, files, outFile, pc, cancelling, response, now, existsSyncOk, transformRuns,
    keywordRuns, batch>>

\* everything but the response
world ==
  <<jobs, files, outFile, pc, cancelling, now, existsSyncOk, transformRuns,
    keywordRuns, batch>>

\* a response, with the request it answers (the job id of the route, 0 when the
\* route has none, and the authenticated caller)
NoData == [kind |-> "none"]
NoResponse ==
  [op |-> "none", jobId |-> 0, userId |-> 0, code |-> 0, message |-> "", data |-> NoData]
Respond(op, j, u, code, message, data) ==
  [op |-> op, jobId |-> j, userId |-> u, code |-> code, message |-> message,
   data |-> data]

\* no processBatch request is being served
NoBatch ==
  [phase |-> "idle", userId |-> 0, files |-> <<>>, next |-> 1,
   batchId |-> NoBatchId, batchJobs |-> <<>>]

\* the state once the controller module has loaded: its load calls fs.existsSync
\* (lines 47-51), so the handlers exist only where that call returns
Init ==
  /\ jobs = [j \in JobIds |-> NoJob]
  /\ files = {}
  /\ outFile = {}
  /\ pc = [j \in JobIds |-> "none"]
  /\ cancelling = {}
  /\ response = NoResponse
  /\ now = 0
  /\ existsSyncOk = TRUE
  /\ transformRuns = <<>>
  /\ keywordRuns = <<>>
  /\ batch = NoBatch

\* a persistence call either returns or throws
DbOutcomes == {"ok", "throws"}

\* ------------------------------------------------------------ submission
\* request bodies of processText: text absent, or a string of blanks and letters
TextInputs ==
  {[present |-> FALSE, chars |-> <<>>]} \cup
  {[present |-> TRUE, chars |-> c] : c \in {<<>>, <<" ">>, <<" ", " ">>, <<"a">>, <<" ", "a">>}}

RECURSIVE TrimStart(_)
TrimStart(c) == IF c # <<>> /\ Head(c) = " " THEN TrimStart(Tail(c)) ELSE c

RECURSIVE TrimEnd(_)
TrimEnd(c) ==
  IF c # <<>> /\ c[Len(c)] = " " THEN TrimEnd(SubSeq(c, 1, Len(c) - 1)) ELSE c

Trim(c) == TrimEnd(TrimStart(c))

\* a variant of TextRejected: the text is not trimmed
TextRejectedNoTrim(text) == ~text.present \/ text.chars = <<>>

\* !text || text.trim().length === 0
TextRejected(text) == ~text.present \/ text.chars = <<>> \/ Len(Trim(text.chars)) = 0

\* req.file of uploadFile: none, or a file with the extension of its original name
NoFile == "nofile"
FileInputs == {NoFile, ".txt", ".TXT", ".csv", ".json", ".pdf", ""}

ToLowerCase(ext) == IF ext = ".TXT" THEN ".txt" ELSE ext

allowedTypes == {".txt", ".csv", ".json"}

\* !req.file, or !allowedTypes.includes(fileExt)
FileRejected(file) == file = NoFile \/ ToLowerCase(file) \notin allowedTypes

\* job ids are handed out in creation order
NextId(j) == jobs[j] = NoJob /\ \A i \in JobIds : i < j => jobs[i] # NoJob

\* user ids are opaque: the owners are numbered in the order of their first job
NextOwner(u) ==
  \A v \in UserIds : v < u => \E i \in JobIds : jobs[i] # NoJob /\ jobs[i].userId = v

\* Date.now() does not decrease; its values are opaque but for naming staging
\* files, so a later value is taken only once the current one names a file
StampUsed(t) ==
  \/ DirectPath(t) \in files
  \/ \E i \in JobIds : jobs[i] # NoJob /\ jobs[i].filePath = DirectPath(t)

DateNow(t) == t = now \/ (t = now + 1 /\ t <= MaxTime /\ StampUsed(now))

\* processText, lines 382-387: the 400 answer, nothing else
ProcessTextReject(u, text) ==
  /\ TextRejected(text)
  /\ UNCHANGED world

ProcessTextRejectAnswer(u) ==
  Respond("processText", 0, u, 400, "Text is required for processing", NoData)

\* processText, lines 389-408: the staging file is written under the name
\* direct_input_<Date.now()>.txt, then the job is saved; a throw of the save is
\* answered 500 (line 425) and the file stays
ProcessTextSave(j, u, text, t, db) ==
  /\ ~TextRejected(text)
  /\ NextId(j)
  /\ NextOwner(u)
  /\ DateNow(t)
  /\ now' = t
  /\ files' = files \cup {DirectPath(t)}
  /\ jobs' = IF db = "ok" THEN [jobs EXCEPT ![j] = NewJob(u, DirectPath(t))] ELSE jobs
  /\ UNCHANGED <<outFile, pc, cancelling, existsSyncOk, transformRuns,
                 keywordRuns, batch>>

ProcessTextSaveAnswer(u, db) ==
  IF db = "ok" THEN NoResponse
  ELSE Respond("processText", 0, u, 500, "Failed to process text", NoData)

\* uploadFile, lines 439-465: the 400 answers; an unsupported upload is unlinked
UploadReject(u, file) ==
  /\ FileRejected(file)
  /\ UNCHANGED world

UploadRejectAnswer(u, file) ==
  Respond("uploadFile", 0, u, 400,
          IF file = NoFile THEN "No file uploaded"
          ELSE "File type not supported for ML processing", NoData)

\* uploadFile, lines 467-479 and 503-519: the job is saved; when the save throws
\* the uploaded file is unlinked and the answer is 500
UploadSave(j, u, file, db) ==
  /\ ~FileRejected(file)
  /\ NextId(j)
  /\ NextOwner(u)
  /\ jobs' = IF db = "ok" THEN [jobs EXCEPT ![j] = NewJob(u, UploadPath(j))] ELSE jobs
  /\ files' = IF db = "ok" THEN files \cup {UploadPath(j)} ELSE files \ {UploadPath(j)}
  /\ UNCHANGED <<outFile, pc, cancelling, now, existsSyncOk, transformRuns,
                 keywordRuns, batch>>

UploadSaveAnswer(u, db) ==
  IF db = "ok" THEN NoResponse
  ELSE Respond("uploadFile", 0, u, 500, "Failed to upload file", NoData)

\* ------------------------------------------------------ batch submission
\* req.files of processBatch: the extensions of the original names, in order
MaxBatchFiles == 2
BatchExtensions == {".TXT", ".pdf"}
BatchInputs == UNION {[1..n -> BatchExtensions] : n \in 0..MaxBatchFiles}

BatchPaths(fs) == {BatchPath(k) : k \in 1..Len(fs)}

Supported(fs) == {k \in 1..Len(fs) : ToLowerCase(fs[k]) \in allowedTypes}

\* the loop of lines 542-549 from index k on: the next file that is not skipped
FirstSupported(fs, k) ==
  IF \E i \in Supported(fs) : i >= k
    THEN CHOOSE i \in Supported(fs) : i >= k /\ \A h \in Supported(fs) : h >= k => i <= h
    ELSE Len(fs) + 1

\* processBatch, lines 529-534: the 400 answer, nothing else
ProcessBatchReject(u) ==
  /\ batch.phase = "idle"
  /\ UNCHANGED world

ProcessBatchRejectAnswer(u) ==
  Respond("processBatch", 0, u, 400, "No files uploaded", NoData)

\* processBatch, lines 536-549 and 575-580: the batch id is made and the loop runs
\* to the save of the first supported file; with none the answer is 400
ProcessBatchStart(u, fs) ==
  /\ batch.phase = "idle"
  /\ fs # <<>>
  /\ NextOwner(u)
  /\ files' = files \cup BatchPaths(fs)
  /\ batch' = [phase |-> IF Supported(fs) = {} THEN "done" ELSE "saving",
               userId |-> u, files |-> fs, next |-> FirstSupported(fs, 1),
               batchId |-> BatchId(now, u), batchJobs |-> <<>>]
  /\ UNCHANGED <<jobs, outFile, pc, cancelling, now, existsSyncOk, transformRuns,
                 keywordRuns>>

ProcessBatchStartAnswer(u, fs) ==
  IF Supported(fs) = {}
    THEN Respond("processBatch", 0, u, 400, "No valid files for ML processing", NoData)
    ELSE NoResponse

\* processBatch, lines 552-564: the job of the current file is saved; a throw of
\* the save goes to the catch of line 592
ProcessBatchSave(j, db) ==
  /\ batch.phase = "saving"
  /\ NextId(j)
  /\ jobs' = IF db = "ok"
               THEN [jobs EXCEPT ![j] = NewBatchJob(batch.userId, BatchPath(batch.next),
                                                    batch.batchId)]
               ELSE jobs
  /\ batch' = [batch EXCEPT !.phase = IF db = "ok" THEN "saved" ELSE "catch"]
  /\ UNCHANGED <<files, outFile, pc, cancelling, now, existsSyncOk, transformRuns,
                 keywordRuns>>

\* the data of the 200 answer of processBatch
BatchData(id, jobIds) ==
  [kind |-> "batch", batchId |-> id, totalFiles |-> Len(jobIds), jobs |-> jobIds]

\* processBatch, lines 565-591: after the save resolves the job is listed, the
\* background processor is called (it runs to its first await) and the loop goes
\* on to the save of the next supported file, or to the answer
ProcessBatchContinue(j) ==
  /\ batch.phase = "saved"
  /\ jobs[j] # NoJob
  /\ jobs[j].filePath = BatchPath(batch.next)
  /\ pc[j] = "none"
  /\ pc' = [pc EXCEPT ![j] = "toProcessing"]
  /\ batch' = [batch EXCEPT
                 !.phase = IF FirstSupported(batch.files, batch.next + 1) > Len(batch.files)
                             THEN "done" ELSE "saving",
                 !.next = FirstSupported(batch.files, batch.next + 1),
                 !.batchJobs = Append(batch.batchJobs, j)]
  /\ UNCHANGED <<jobs, files, outFile, cancelling, now, existsSyncOk, transformRuns,
                 keywordRuns>>

ProcessBatchContinueAnswer(j) ==
  IF FirstSupported(batch.files, batch.next + 1) > Len(batch.files)
    THEN Respond("processBatch", 0, batch.userId, 200, "Batch ML processing started",
                 BatchData(batch.batchId, Append(batch.batchJobs, j)))
    ELSE NoResponse

\* processBatch, lines 592-610: every file of the request is unlinked and the
\* answer is 500
ProcessBatchCatch ==
  /\ batch.phase = "catch"
  /\ files' = files \ BatchPaths(batch.files)
  /\ batch' = [batch EXCEPT !.phase = "done"]
  /\ UNCHANGED <<jobs, outFile, pc, cancelling, now, existsSyncOk, transformRuns,
                 keywordRuns>>

ProcessBatchCatchAnswer ==
  Respond("processBatch", 0, batch.userId, 500, "Batch processing failed", NoData)

\* processText lines 413-424, uploadFile lines 490-502: after the save resolves the
\* background processor is called (it runs to its first await) and the answer
\* carrying the job id is sent
SubmitStart(j) ==
  /\ jobs[j] # NoJob
  /\ jobs[j].batchId = NoBatchId
  /\ pc[j] = "none"
  /\ pc' = [pc EXCEPT ![j] = "toProcessing"]
  /\ UNCHANGED <<jobs, files, outFile, cancelling, now, existsSyncOk, transformRuns,
                 keywordRuns, batch>>

SubmitStartAnswer(j) ==
  Respond(IF jobs[j].filePath = UploadPath(j) THEN "uploadFile" ELSE "processText",
          0, jobs[j].userId, 200, "processing started",
          [kind |-> "submitted", jobId |-> j])

\* ------------------------------------------------- background execution
\* ensureTempDir, lines 56-63: fs.mkdir rejects; the rejection is logged and
\* processJobInBackground goes on
TempDirFails(j) ==
  /\ pc[j] = "toProcessing"
  /\ pc' = [pc EXCEPT ![j] = "tempDirFailed"]
  /\ UNCHANGED <<jobs, files, outFile, cancelling, now, existsSyncOk, transformRuns,
                 keywordRuns, batch>>

\* processJobInBackground, lines 159-194: the update to processing, then the
\* scorer is launched; a throw of the update goes to the setup catch (line 350)
ToProcessing(j, db) ==
  /\ pc[j] \in {"toProcessing", "tempDirFailed"}
  /\ jobs' = IF db = "ok" THEN findByIdAndUpdate(jobs, j, ProcessingPatch) ELSE jobs
  /\ pc' = [pc EXCEPT ![j] = IF db = "ok" THEN "scorer" ELSE "setupFailed"]
  /\ UNCHANGED <<files, outFile, cancelling, now, existsSyncOk, transformRuns,
                 keywordRuns, batch>>

\* lines 162-194 and 350: the update to processing is made, then PythonShell.run
\* throws instead of launching the scorer, and the setup catch is entered
LaunchThrows(j) ==
  /\ pc[j] \in {"toProcessing", "tempDirFailed"}
  /\ jobs' = findByIdAndUpdate(jobs, j, ProcessingPatch)
  /\ pc' = [pc EXCEPT ![j] = "setupFailed"]
  /\ UNCHANGED <<files, outFile, cancelling, now, existsSyncOk, transformRuns,
                 keywordRuns, batch>>

\* lines 354-370: the setup catch writes failed and unlinks the input; when its
\* own update throws, the inner catch (line 368) logs and the unlink is skipped
SetupFailedUpdate(j, db) ==
  /\ pc[j] = "setupFailed"
  /\ jobs' = IF db = "ok" THEN findByIdAndUpdate(jobs, j, SetupFailedPatch) ELSE jobs
  /\ pc' = [pc EXCEPT ![j] = IF db = "ok" THEN "setupUnlink" ELSE "done"]
  /\ UNCHANGED <<files, outFile, cancelling, now, existsSyncOk, transformRuns,
                 keywordRuns, batch>>

\* lines 363-367 and 211-215: fs.unlink(filePath), its rejection is logged
UnlinkInput(j, at) ==
  /\ pc[j] = at
  /\ files' = files \ {jobs[j].filePath}
  /\ pc' = [pc EXCEPT ![j] = "done"]
  /\ UNCHANGED <<jobs, outFile, cancelling, now, existsSyncOk, transformRuns,
                 keywordRuns, batch>>

SetupUnlink(j) == UnlinkInput(j, "setupUnlink")

\* the scorer exits: its output file (when it wrote one) is on disk from here on
WithOutput(j, file) == IF file = Absent THEN outFile \ {j} ELSE outFile \cup {j}

\* lines 199-218: the callback receives an error; a throw of the update leaves
\* the async callback as a rejected promise nobody handles
CallbackError(j, file, db) ==
  /\ pc[j] = "scorer"
  /\ outFile' = WithOutput(j, file)
  /\ jobs' = IF db = "ok" THEN findByIdAndUpdate(jobs, j, MLFailedPatch) ELSE jobs
  /\ pc' = [pc EXCEPT ![j] = IF db = "ok" THEN "errorUnlink" ELSE "rejected"]
  /\ UNCHANGED <<files, cancelling, now, existsSyncOk, transformRuns,
                 keywordRuns, batch>>

ErrorUnlink(j) == UnlinkInput(j, "errorUnlink")

\* lines 222-255: the payload is read from the output file, else from the
\* captured output; fs is the promise API (line 2), on which existsSync is not a
\* function unless the environment supplies one: the call at line 225 then throws
\* into the catch of line 245.  The value is [ok, results].
ReadResultData(file, stdout, fsOk) ==
  LET thrown == [ok |-> FALSE, results |-> <<>>]
      parsed(c) == IF c.kind = "json" /\ c.success
                     THEN [ok |-> TRUE, results |-> c.results]
                     ELSE thrown
  IN IF ~fsOk THEN thrown
     ELSE IF file # Absent THEN parsed(file)
     ELSE IF stdout # Absent THEN parsed(stdout)
     ELSE thrown

\* lines 220-291: no error; the payload is read and transformed, startedAt is
\* read back and the job is written completed.  A throw anywhere (the read, the
\* parse, success = false, either persistence call) goes to the catch of line 327
CallbackSuccess(j, file, stdout, db) ==
  /\ pc[j] = "scorer"
  /\ outFile' = WithOutput(j, file)
  /\ LET data == ReadResultData(file, stdout, existsSyncOk)
     IN IF data.ok /\ db = "ok"
          THEN /\ jobs' = findByIdAndUpdate(jobs, j, CompletedPatch(data.results, now))
               /\ pc' = [pc EXCEPT ![j] = "completedCleanup"]
          ELSE /\ jobs' = jobs
               /\ pc' = [pc EXCEPT ![j] = "resultsFailed"]
  /\ UNCHANGED <<files, cancelling, now, existsSyncOk, transformRuns,
                 keywordRuns, batch>>

\* lines 331-336: the catch writes failed with progress 50; a throw of this
\* update is again an unhandled rejection
ResultsFailedUpdate(j, db) ==
  /\ pc[j] = "resultsFailed"
  /\ jobs' = IF db = "ok" THEN findByIdAndUpdate(jobs, j, ResultsFailedPatch) ELSE jobs
  /\ pc' = [pc EXCEPT ![j] = IF db = "ok" THEN "failedCleanup" ELSE "rejected"]
  /\ UNCHANGED <<files, outFile, cancelling, now, existsSyncOk, transformRuns,
                 keywordRuns, batch>>

\* lines 297-306 and 339-346: unlink the input, then the output when it exists;
\* the unlink of a missing input rejects and the existsSync call may throw, and
\* either ends the try block before the output is unlinked
OutputAfterCleanup(j) ==
  IF jobs[j].filePath \in files /\ existsSyncOk THEN outFile \ {j} ELSE outFile

CleanupFiles(j, at, to) ==
  /\ pc[j] = at
  /\ files' = files \ {jobs[j].filePath}
  /\ outFile' = OutputAfterCleanup(j)
  /\ pc' = [pc EXCEPT ![j] = to]
  /\ UNCHANGED <<jobs, cancelling, now, existsSyncOk, transformRuns,
                 keywordRuns, batch>>

\* a variant of CompletedCleanup: nothing is unlinked
CompletedCleanupSkipped(j) ==
  /\ pc[j] = "completedCleanup"
  /\ pc' = [pc EXCEPT ![j] = "notify"]
  /\ UNCHANGED <<jobs, files, outFile, cancelling, now, existsSyncOk, transformRuns,
                 keywordRuns, batch>>

\* a variant of CompletedCleanup: a throw of the cleanup reaches the catch of
\* the callback
CompletedCleanupUnprotected(j) ==
  /\ pc[j] = "completedCleanup"
  /\ pc' = [pc EXCEPT ![j] = "resultsFailed"]
  /\ UNCHANGED <<jobs, files, outFile, cancelling, now, existsSyncOk, transformRuns,
                 keywordRuns, batch>>

CompletedCleanup(j) == CleanupFiles(j, "completedCleanup", "notify")

FailedCleanup(j) == CleanupFiles(j, "failedCleanup", "done")

\* config.email?.enabled of line 309; config.js defines no enabled under email
emailEnabled == FALSE

\* lines 308-325: the completion notification, after the cleanup.  The mail is
\* sent only when enabled; a rejection of the sending is caught at line 322.
\* Sent, failed or skipped, the step writes nothing
Notify(j) ==
  /\ pc[j] = "notify"
  /\ pc' = [pc EXCEPT ![j] = "done"]
  /\ UNCHANGED <<jobs, files, outFile, cancelling, now, existsSyncOk, transformRuns,
                 keywordRuns, batch>>

\* ------------------------------------------------------------- cancelJob
\* lines 766-786: findOneAndUpdate filtered on id, owner and status, one
\* operation of the store; no match changes nothing, a throw neither
CancelUpdate(j, u, db) ==
  /\ IF db = "ok" /\ CancelFilter(jobs[j], u)
       THEN /\ jobs' = [jobs EXCEPT ![j] = Merge(@, CancelPatch)]
            /\ cancelling' = cancelling \cup {j}
       ELSE UNCHANGED <<jobs, cancelling>>
  /\ UNCHANGED <<files, outFile, pc, now, existsSyncOk, transformRuns,
                 keywordRuns, batch>>

\* no match is answered 404 (line 781), a throw 500 (line 816); after a match
\* the handler goes on to its cleanup
CancelUpdateAnswer(store, j, u, db) ==
  IF db = "throws" THEN Respond("cancelJob", j, u, 500, "Failed to cancel job", NoData)
  ELSE IF CancelFilter(store[j], u) THEN NoResponse
  ELSE Respond("cancelJob", j, u, 404, "Job not found or cannot be cancelled", NoData)

\* lines 788-815: the input and the result file are unlinked (failures are
\* logged), then the success answer is sent
CancelCleanup(j) ==
  /\ j \in cancelling
  /\ cancelling' = cancelling \ {j}
  /\ files' = files \ {jobs[j].filePath}
  /\ outFile' = outFile \ {j}
  /\ UNCHANGED <<jobs, pc, now, existsSyncOk, transformRuns, keywordRuns, batch>>

CancelCleanupAnswer(j) ==
  Respond("cancelJob", j, jobs[j].userId, 200, "Job cancelled successfully",
          [kind |-> "cancelled", jobId |-> j, status |-> "cancelled"])

\* ------------------------------------------------------------- getStatus
\* lines 622-659
StatusResponse(store, j, u) ==
  IF ~OwnerFilter(store[j], u)
    THEN Respond("getStatus", j, u, 404, "Job not found", NoData)
    ELSE Respond("getStatus", j, u, 200, "",
                 [kind |-> "status", jobId |-> j, status |-> store[j].status,
                  progress |-> store[j].progress,
                  startedAt |-> store[j].startedAt,
                  completedAt |-> store[j].completedAt,
                  failedAt |-> store[j].failedAt,
                  error |-> IF store[j].failedAt THEN store[j].errorMessage
                            ELSE NoMessage])

\* line 660: a throw of the lookup
GetStatusAnswer(store, j, u, db) ==
  IF db = "ok" THEN StatusResponse(store, j, u)
  ELSE Respond("getStatus", j, u, 500, "Failed to get job status", NoData)

GetStatus(j, u, db) == UNCHANGED world

\* ------------------------------------------------------------ getResults
Min(a, b) == IF a < b THEN a ELSE b
Max(a, b) == IF a > b THEN a ELSE b

\* a variant of Slice: the end index is not applied
SliceToEnd(seq, start, end) ==
  LET n == Len(seq)
      from == IF start < 0 THEN Max(n + start, 0) ELSE Min(start, n)
  IN IF from >= n THEN <<>> ELSE SubSeq(seq, from + 1, n)

\* Array.prototype.slice(start, end): a negative index counts from the end
Slice(seq, start, end) ==
  LET n == Len(seq)
      from == IF start < 0 THEN Max(n + start, 0) ELSE Min(start, n)
      to == IF end < 0 THEN Max(n + end, 0) ELSE Min(end, n)
  IN IF from >= to THEN <<>> ELSE SubSeq(seq, from + 1, to)

\* Math.ceil(n / limit), n >= 0 and limit # 0
CeilDiv(n, limit) ==
  IF limit > 0 THEN (n + limit - 1) \div limit ELSE 0 - (n \div (0 - limit))

\* line 728: Math.ceil(job.results.length / limit) as res.json writes it: the
\* number, or nothing (null) for the Infinity or NaN of a limit of 0
TotalPages(n, limit) == IF limit = 0 THEN <<>> ELSE <<CeilDiv(n, limit)>>

\* line 694: the message of the 400 answer
NotCompletedMessage(status) == "Job is not completed yet"

\* lines 679-745
ResultsResponse(store, j, u, page, limit) ==
  IF ~OwnerFilter(store[j], u)
    THEN Respond("getResults", j, u, 404, "Job not found", NoData)
  ELSE IF store[j].status # "completed"
    THEN Respond("getResults", j, u, 400, NotCompletedMessage(store[j].status),
                 [kind |-> "notCompleted", status |-> store[j].status,
                  progress |-> "ML processing in progress"])
  ELSE Respond("getResults", j, u, 200, "",
               [kind |-> "results", jobId |-> j, status |-> store[j].status,
                totalLines |-> store[j].totalLines,
                results |-> Slice(store[j].results, (page - 1) * limit,
                                  (page - 1) * limit + limit),
                page |-> page, limit |-> limit,
                total |-> Len(store[j].results),
                totalPages |-> TotalPages(Len(store[j].results), limit)])

\* line 746: a throw of the lookup
GetResultsAnswer(store, j, u, page, limit, db) ==
  IF db = "ok" THEN ResultsResponse(store, j, u, page, limit)
  ELSE Respond("getResults", j, u, 500, "Failed to get results", NoData)

GetResults(j, u, page, limit, db) == UNCHANGED world

\* --------------------------------------------------- the handlers observed
\* a step of a handler together with the response it sends (NoResponse when the
\* step sends none)
Sends(r) == response' = r

Submit ==
  \E u \in UserIds :
    \/ \E text \in TextInputs : ProcessTextReject(u, text) /\ Sends(ProcessTextRejectAnswer(u))
    \/ \E j \in ApiJobIds, text \in TextInputs, t \in 0..MaxTime, db \in DbOutcomes :
         ProcessTextSave(j, u, text, t, db) /\ Sends(ProcessTextSaveAnswer(u, db))
    \/ \E file \in FileInputs : UploadReject(u, file) /\ Sends(UploadRejectAnswer(u, file))
    \/ \E j \in ApiJobIds, file \in FileInputs, db \in DbOutcomes :
         UploadSave(j, u, file, db) /\ Sends(UploadSaveAnswer(u, db))

Background ==
  \E j \in JobIds :
    \/ SubmitStart(j) /\ Sends(SubmitStartAnswer(j))
    \/ TempDirFails(j) /\ Sends(NoResponse)
    \/ \E db \in DbOutcomes : ToProcessing(j, db) /\ Sends(NoResponse)
    \/ LaunchThrows(j) /\ Sends(NoResponse)
    \/ \E db \in DbOutcomes : SetupFailedUpdate(j, db) /\ Sends(NoResponse)
    \/ SetupUnlink(j) /\ Sends(NoResponse)
    \/ \E file \in FileContents, db \in DbOutcomes :
         CallbackError(j, file, db) /\ Sends(NoResponse)
    \/ ErrorUnlink(j) /\ Sends(NoResponse)
    \/ \E file \in FileContents, stdout \in StdoutContents, db \in DbOutcomes :
         CallbackSuccess(j, file, stdout, db) /\ Sends(NoResponse)
    \/ \E db \in DbOutcomes : ResultsFailedUpdate(j, db) /\ Sends(NoResponse)
    \/ CompletedCleanup(j) /\ Sends(NoResponse)
    \/ Notify(j) /\ Sends(NoResponse)
    \/ FailedCleanup(j) /\ Sends(NoResponse)

Cancel ==
  \E j \in JobIds :
    \/ \E u \in UserIds, db \in DbOutcomes :
         CancelUpdate(j, u, db) /\ Sends(CancelUpdateAnswer(jobs, j, u, db))
    \/ CancelCleanup(j) /\ Sends(CancelCleanupAnswer(j))

Query ==
  \E j \in JobIds, u \in UserIds, db \in DbOutcomes :
    \/ GetStatus(j, u, db) /\ Sends(GetStatusAnswer(jobs, j, u, db))
    \/ \E page \in 1..MaxPage, limit \in 1..MaxLimit :
         GetResults(j, u, page, limit, db)
           /\ Sends(GetResultsAnswer(jobs, j, u, page, limit, db))

Next == Submit \/ Background \/ Cancel \/ Query

Spec == Init /\ [][Next]_vars

\* ------------------------------------------- the collection and the files
\* the steps that change the collection or the files, for MaxJobs jobs
\* submitted and executed concurrently; the responses are left aside
StoreSubmit ==
  \E j \in JobIds, u \in UserIds :
    \/ \E text \in TextInputs, t \in 0..MaxTime :
         ProcessTextSave(j, u, text, t, "ok") /\ UNCHANGED response
    \/ \E file \in FileInputs : UploadSave(j, u, file, "ok") /\ UNCHANGED response

StoreBackground ==
  \E j \in JobIds :
    \/ SubmitStart(j) /\ UNCHANGED response
    \/ TempDirFails(j) /\ UNCHANGED response
    \/ \E db \in DbOutcomes : ToProcessing(j, db) /\ UNCHANGED response
    \/ LaunchThrows(j) /\ UNCHANGED response
    \/ \E db \in DbOutcomes : SetupFailedUpdate(j, db) /\ UNCHANGED response
    \/ SetupUnlink(j) /\ UNCHANGED response
    \/ \E file \in FileContents, db \in DbOutcomes :
         CallbackError(j, file, db) /\ UNCHANGED response
    \/ ErrorUnlink(j) /\ UNCHANGED response
    \/ \E file \in FileContents, stdout \in StdoutContents, db \in DbOutcomes :
         CallbackSuccess(j, file, stdout, db) /\ UNCHANGED response
    \/ \E db \in DbOutcomes : ResultsFailedUpdate(j, db) /\ UNCHANGED response
    \/ CompletedCleanup(j) /\ UNCHANGED response
    \/ Notify(j) /\ UNCHANGED response
    \/ FailedCleanup(j) /\ UNCHANGED response

StoreCancel ==
  \E j \in JobIds :
    \/ \E u \in UserIds : CancelUpdate(j, u, "ok") /\ UNCHANGED response
    \/ CancelCleanup(j) /\ UNCHANGED response

StoreNext == StoreSubmit \/ StoreBackground \/ StoreCancel

StoreSpec == Init /\ [][StoreNext]_vars

\* --------------------------------------------------- a store that answers
\* the steps of one job when no persistence call throws
FairSubmit ==
  \E j \in ApiJobIds, u \in UserIds :
    \/ \E text \in TextInputs, t \in 0..MaxTime :
         ProcessTextSave(j, u, text, t, "ok") /\ Sends(ProcessTextSaveAnswer(u, "ok"))
    \/ \E file \in FileInputs :
         UploadSave(j, u, file, "ok") /\ Sends(UploadSaveAnswer(u, "ok"))

\* the steps of a background execution that the event loop runs by itself: the
\* continuation after an await whose promise the store or the file system settles
Scheduled(j) ==
  \/ SubmitStart(j) /\ Sends(SubmitStartAnswer(j))
  \/ ToProcessing(j, "ok") /\ Sends(NoResponse)
  \/ ErrorUnlink(j) /\ Sends(NoResponse)
  \/ ResultsFailedUpdate(j, "ok") /\ Sends(NoResponse)
  \/ CompletedCleanup(j) /\ Sends(NoResponse)
  \/ Notify(j) /\ Sends(NoResponse)
  \/ FailedCleanup(j) /\ Sends(NoResponse)

\* the completion callback runs when the scorer process exits: PythonShell.run
\* is given no timeout (options, lines 175-187), so nothing forces this step
ScorerExit(j) ==
  \/ \E file \in FileContents : CallbackError(j, file, "ok") /\ Sends(NoResponse)
  \/ \E file \in FileContents, stdout \in StdoutContents :
       CallbackSuccess(j, file, stdout, "ok") /\ Sends(NoResponse)

FairCancel(j) ==
  \/ \E u \in UserIds :
       CancelUpdate(j, u, "ok") /\ Sends(CancelUpdateAnswer(jobs, j, u, "ok"))
  \/ CancelCleanup(j) /\ Sends(CancelCleanupAnswer(j))

FairNext ==
  \/ FairSubmit
  \/ \E j \in ApiJobIds : Scheduled(j)
  \/ \E j \in ApiJobIds : ScorerExit(j)
  \/ \E j \in ApiJobIds : FairCancel(j)

\* every continuation the event loop holds is run; the exit of the scorer and
\* the requests of the callers are not forced
FairSpec ==
  /\ Init
  /\ [][FairNext]_vars
  /\ \A j \in ApiJobIds : WF_vars(Scheduled(j))
  /\ \A j \in ApiJobIds : WF_vars(CancelCleanup(j) /\ Sends(CancelCleanupAnswer(j)))

\* ------------------------------------------------------ the batch requests
\* a processBatch request or a single upload made on the empty collection, with
\* the background executions and the cancellations of their jobs
BatchSubmit ==
  \E u \in UserIds :
    \/ ProcessBatchReject(u) /\ Sends(ProcessBatchRejectAnswer(u))
    \/ \E fs \in BatchInputs :
         /\ \A j \in JobIds : jobs[j] = NoJob
         /\ ProcessBatchStart(u, fs) /\ Sends(ProcessBatchStartAnswer(u, fs))
    \/ \E j \in JobIds, db \in DbOutcomes : ProcessBatchSave(j, db) /\ Sends(NoResponse)
    \/ \E j \in JobIds : ProcessBatchContinue(j) /\ Sends(ProcessBatchContinueAnswer(j))
    \/ ProcessBatchCatch /\ Sends(ProcessBatchCatchAnswer)
    \/ \E j \in ApiJobIds :
         /\ batch.phase = "idle"
         /\ UploadSave(j, u, ".txt", "ok") /\ Sends(UploadSaveAnswer(u, "ok"))

BatchNext == BatchSubmit \/ StoreBackground \/ StoreCancel

BatchSpec == Init /\ [][BatchNext]_vars

\* ================================================================= claims

\* C1: once a job's status is completed, failed or cancelled, no step changes
\* that status again.
TerminalStatusSticky ==
  [][\A j \in JobIds :
       (jobs[j] # NoJob /\ jobs[j].status \in TerminalStatuses)
         => jobs'[j].status = jobs[j].status]_vars

\* C2: a job that was cancelled while its background execution was still to
\* finish ends, once that execution and the cancel request are over, with status
\* cancelled and no results.
CancelWinsRace ==
  \A j \in JobIds :
    (jobs[j] # NoJob /\ jobs[j].cancelledAt /\ j \notin cancelling
       /\ pc[j] \in {"done", "rejected"})
      => (jobs[j].status = "cancelled" /\ jobs[j].results = <<>>)

\* C3: the update of a cancel request sets the status to cancelled exactly when
\* the stored job is the caller's and pending or processing; a status becomes
\* cancelled only from pending or processing; and a cancel request answered with
\* a failure leaves the collection as it was.
CancelIsConditional ==
  [][/\ \A j \in JobIds, u \in UserIds :
          (CancelUpdate(j, u, "ok") /\ Sends(CancelUpdateAnswer(jobs, j, u, "ok")))
            => IF jobs[j] # NoJob /\ jobs[j].userId = u
                    /\ jobs[j].status \in {"pending", "processing"}
                 THEN /\ jobs'[j].status = "cancelled"
                      /\ \A i \in JobIds \ {j} : jobs'[i] = jobs[i]
                 ELSE jobs' = jobs /\ response'.code = 404
     /\ \A j \in JobIds :
          (jobs[j] # NoJob /\ jobs[j].status # "cancelled"
             /\ jobs'[j].status = "cancelled")
            => jobs[j].status \in {"pending", "processing"}
     /\ (response'.op = "cancelJob" /\ response'.code # 200) => jobs' = jobs]_vars

\* C3 witness: a cancel request of the owner was answered 404 for a job that is
\* terminal.
CancelRefusedOnTerminal ==
  /\ response.op = "cancelJob"
  /\ response.code = 404
  /\ jobs[response.jobId] # NoJob
  /\ jobs[response.jobId].userId = response.userId
  /\ jobs[response.jobId].status \in TerminalStatuses

\* C4: a job whose status is terminal carries the timestamp of that status and
\* neither of the two other terminal timestamps.
OneTerminalTimestamp ==
  \A j \in JobIds :
    (jobs[j] # NoJob /\ jobs[j].status \in TerminalStatuses)
      => /\ jobs[j].completedAt <=> (jobs[j].status = "completed")
         /\ jobs[j].failedAt <=> (jobs[j].status = "failed")
         /\ jobs[j].cancelledAt <=> (jobs[j].status = "cancelled")

\* C5: every job that was created eventually has a terminal status, whether or
\* not the scorer process ever exits.
EventuallyTerminal ==
  \A j \in ApiJobIds :
    [](jobs[j] # NoJob => <>(jobs[j].status \in TerminalStatuses))

\* C6: a step that creates a job record creates one record, pending, whose
\* background execution has not started; the background execution starts in the
\* step that sends the 200 answer with the job id, and that step changes no
\* record and finds the job neither processing nor completed nor failed.
SubmitCreatesOnePending ==
  [][/\ \A j \in JobIds :
          (jobs[j] = NoJob /\ jobs'[j] # NoJob)
            => /\ jobs'[j].status = "pending"
               /\ pc[j] = "none" /\ pc'[j] = "none"
               /\ \A i \in JobIds \ {j} : jobs'[i] = jobs[i]
     /\ \A j \in JobIds :
          (pc[j] = "none" /\ pc'[j] # "none")
            => /\ jobs[j] # NoJob
               /\ jobs' = jobs
               /\ pc'[j] = "toProcessing"
               /\ jobs[j].status \notin {"processing", "completed", "failed"}
               /\ ~jobs[j].startedAt
               /\ response'.code = 200
               /\ response'.op \in {"processText", "uploadFile"}
               /\ response'.data = [kind |-> "submitted", jobId |-> j]
     /\ (response'.code = 200 /\ response'.op \in {"processText", "uploadFile"}
           /\ response' # response)
          => /\ pc[response'.data.jobId] = "none"
             /\ pc'[response'.data.jobId] = "toProcessing"
             /\ jobs' = jobs]_vars

\* C6 witness: the 200 answer of a submission was sent while the job it names
\* is pending and its background execution has not yet written anything.
SubmitAnsweredWhilePending ==
  /\ response.code = 200
  /\ response.op \in {"processText", "uploadFile"}
  /\ jobs[response.data.jobId].status = "pending"
  /\ pc[response.data.jobId] = "toProcessing"

\* C7: no step that changes the collection or the staging files is the save of
\* a text that is absent, empty or all blanks, nor of a missing file or a file
\* whose extension is not .txt, .csv or .json in any letter case; the 400 answer of a submission changes no record, starts no
\* background execution and leaves no staging file behind.
InvalidSubmitRejected ==
  [][/\ (jobs' # jobs \/ files' # files)
          => /\ \A u \in UserIds, text \in TextInputs :
                  (~text.present \/ \A i \in 1..Len(text.chars) : text.chars[i] = " ")
                    => ~(\E j \in JobIds, t \in 0..MaxTime, db \in DbOutcomes :
                           ProcessTextSave(j, u, text, t, db))
             /\ \A u \in UserIds, file \in FileInputs :
                  (file = NoFile \/ file \notin {".txt", ".TXT", ".csv", ".json"})
                    => ~(\E j \in JobIds, db \in DbOutcomes :
                           UploadSave(j, u, file, db))
     /\ (response'.code = 400 /\ response'.op \in {"processText", "uploadFile"})
          => UNCHANGED <<jobs, pc, files>>]_vars

\* C7 witness: an upload was answered 400 for its file type; the collection
\* holds no job, no background execution runs and no staging file exists.
SubmitRejectedNoJob ==
  /\ response.code = 400
  /\ response.op = "uploadFile"
  /\ response.message = "File type not supported for ML processing"
  /\ \A j \in JobIds : jobs[j] = NoJob /\ pc[j] = "none"
  /\ files = {}

\* C8: the answer of getStatus, getResults and of a refused cancelJob is the
\* answer the same request gets from the collection with every job of another
\* owner removed, and a request naming a job of another owner changes no record.
OwnerScoped ==
  [][\A j \in JobIds, u \in UserIds :
       LET mine == [i \in JobIds |->
                      IF jobs[i] # NoJob /\ jobs[i].userId = u THEN jobs[i] ELSE NoJob]
           asked == response'.jobId = j /\ response'.userId = u
       IN /\ (response'.op = "getStatus" /\ asked)
               => /\ jobs' = jobs
                  /\ \E db \in DbOutcomes : response' = GetStatusAnswer(mine, j, u, db)
          /\ (response'.op = "getResults" /\ asked)
               => /\ jobs' = jobs
                  /\ \E page \in 1..MaxPage, limit \in 1..MaxLimit, db \in DbOutcomes :
                       response' = GetResultsAnswer(mine, j, u, page, limit, db)
          /\ (response'.op = "cancelJob" /\ asked /\ response'.code # 200)
               => \E db \in DbOutcomes : response' = CancelUpdateAnswer(mine, j, u, db)
          /\ (jobs[j] # NoJob /\ jobs[j].userId # u
                /\ \E db \in DbOutcomes :
                     CancelUpdate(j, u, db) /\ Sends(CancelUpdateAnswer(jobs, j, u, db)))
               => /\ UNCHANGED world
                  /\ response'.code \in {404, 500}]_vars

\* C8 witness: getStatus was answered 404 for a job that exists and belongs to
\* another user than the caller.
OtherOwnerNotFound ==
  /\ response.op = "getStatus"
  /\ response.code = 404
  /\ jobs[response.jobId] # NoJob
  /\ jobs[response.jobId].userId # response.userId

\* C9: once a job's background execution has ended, by whichever path, and no
\* cancel request is in progress, the job's input staging file does not exist.
InputRemovedAfterExecution ==
  \A j \in JobIds :
    (jobs[j] # NoJob /\ j \notin cancelling
       /\ (pc[j] \in {"done", "rejected"} \/ jobs[j].cancelledAt))
      => jobs[j].filePath \notin files

\* C10: the message of getResults' answer for a job that is not completed is not
\* the message the handler gives for a job of another kind (pending or
\* processing, failed, cancelled).
NotCompletedMessagesDiffer ==
  (response.op = "getResults" /\ response.code = 400)
    => LET kind(s) == IF s \in {"pending", "processing"} THEN "running" ELSE s
       IN \A s \in Statuses \ {"completed"} :
            kind(s) # kind(response.data.status)
              => NotCompletedMessage(s) # response.message

\* ------------------------------------------------------ keyword extraction
\* a text is a sequence of characters, each a one-character string
LowerCaseLetters == {"b", "c", "d", "e", "f", "g", "h", "i", "l", "n", "o", "p", "r", "s", "t", "u"}
UpperCaseLetters == {"G"}
Digits == {"2"}
Whitespace == {" "}

\* String.prototype.toLowerCase, per character
toLowerCase(chars) == [i \in 1..Len(chars) |-> IF chars[i] = "G" THEN "g" ELSE chars[i]]

\* \w of a regular expression: letters, digits and the underscore
WordCharacters == LowerCaseLetters \cup UpperCaseLetters \cup Digits \cup {"_"}

\* replace(/[^\w\s]/g, ' ')
replacePunctuation(chars) ==
  [i \in 1..Len(chars) |->
     IF chars[i] \in WordCharacters \cup Whitespace THEN chars[i] ELSE " "]

\* split(/\s+/): the pieces between the runs of whitespace, the empty pieces at
\* both ends included
RECURSIVE SplitFrom(_, _, _, _)
SplitFrom(chars, current, pieces, inGap) ==
  IF chars = <<>> THEN Append(pieces, current)
  ELSE IF Head(chars) \in Whitespace
    THEN IF inGap THEN SplitFrom(Tail(chars), current, pieces, TRUE)
         ELSE SplitFrom(Tail(chars), <<>>, Append(pieces, current), TRUE)
  ELSE SplitFrom(Tail(chars), Append(current, Head(chars)), pieces, FALSE)

split(chars) == SplitFrom(chars, <<>>, <<>>, FALSE)

\* the stop words of lines 71-77 that the characters above can spell
stopWords ==
  {<<"t", "h", "e">>,
   <<"i", "n">>,
   <<"o", "n">>,
   <<"t", "o">>,
   <<"f", "o", "r">>,
   <<"o", "f">>,
   <<"i", "s">>,
   <<"b", "e">>,
   <<"b", "e", "e", "n">>,
   <<"b", "e", "i", "n", "g">>,
   <<"d", "o">>,
   <<"d", "o", "e", "s">>,
   <<"d", "i", "d">>,
   <<"s", "h", "o", "u", "l", "d">>,
   <<"c", "o", "u", "l", "d">>,
   <<"t", "h", "i", "s">>,
   <<"t", "h", "e", "s", "e">>,
   <<"t", "h", "o", "s", "e">>,
   <<"i">>,
   <<"h", "e">>,
   <<"s", "h", "e">>,
   <<"i", "t">>,
   <<"h", "e", "r">>,
   <<"u", "s">>}

\* lines 79-86: the words that pass the filter, in the order of the text
FilteredWords(text) ==
  SelectSeq(split(replacePunctuation(toLowerCase(text))),
            LAMBDA word : /\ Len(word) > 3
                          /\ word \notin stopWords
                          /\ \A i \in 1..Len(word) : word[i] \notin Digits)

\* the lowercase names that wordCount = {} inherits from Object.prototype
Constructor == <<"c", "o", "n", "s", "t", "r", "u", "c", "t", "o", "r">>
Proto == <<"_", "_", "p", "r", "o", "t", "o", "_", "_">>

\* lines 89-92: wordCount[word] = (wordCount[word] || 0) + 1.  The entries are
\* kept in insertion order.  The first read of "constructor" finds the inherited
\* function, so its entry is a string and not a number; the write of "__proto__"
\* goes to the inherited setter, which ignores a string, so it never gets an
\* entry
RECURSIVE CountWords(_, _)
CountWords(words, entries) ==
  IF words = <<>> THEN entries
  ELSE LET word == Head(words)
           at == {i \in 1..Len(entries) : entries[i].word = word}
       IN IF word = Proto THEN CountWords(Tail(words), entries)
          ELSE IF at = {}
            THEN CountWords(Tail(words),
                            Append(entries, [word |-> word, count |-> 1,
                                             number |-> word # Constructor]))
          ELSE CountWords(Tail(words),
                          [i \in 1..Len(entries) |->
                             IF i \in at
                               THEN [entries[i] EXCEPT !.count = entries[i].count + 1]
                               ELSE entries[i]])

wordCount(text) == CountWords(FilteredWords(text), <<>>)

\* a stable sort by descending count, as Array.prototype.sort does with a
\* consistent comparator
RECURSIVE InsertByCount(_, _)
InsertByCount(entry, sorted) ==
  IF sorted = <<>> THEN <<entry>>
  ELSE IF Head(sorted).count >= entry.count
    THEN <<Head(sorted)>> \o InsertByCount(entry, Tail(sorted))
  ELSE <<entry>> \o sorted

RECURSIVE StableSort(_, _)
StableSort(entries, sorted) ==
  IF entries = <<>> THEN sorted
  ELSE StableSort(Tail(entries), InsertByCount(Head(entries), sorted))

\* the orders a sequence of entries can be put in
RECURSIVE Orderings(_)
Orderings(entries) ==
  IF entries = <<>> THEN {<<>>}
  ELSE UNION {{SubSeq(o, 1, k) \o <<Head(entries)>> \o SubSeq(o, k + 1, Len(o)) :
                 k \in 0..Len(o)} : o \in Orderings(Tail(entries))}

\* line 96: sort((a, b) => b[1] - a[1]).  With an entry that is not a number the
\* comparator returns NaN, it is not a consistent comparator and the order of
\* the result is implementation-defined
Sorted(entries) ==
  IF Len(entries) > 1 /\ \E i \in 1..Len(entries) : ~entries[i].number
    THEN Orderings(entries)
    ELSE {StableSort(entries, <<>>)}

\* extractKeywords, lines 68-99: the results it can return (slice(0, 5) of the
\* sorted entries, mapped to their words)
extractKeywords(text) ==
  IF text = <<>> THEN {<<>>}
  ELSE {[i \in 1..Min(5, Len(sorted)) |-> sorted[i].word] :
          sorted \in Sorted(wordCount(text))}

\* ------------------------------------------------------------- pagination
\* getResults asked of a completed job for the pages and limits a query string
\* can carry as integers, the non-positive ones included

\* the scorer payload of n records
ScorerRecords(n) ==
  [i \in 1..n |-> IF i % 2 = 1 THEN Raw("positive", 90) ELSE Raw("none", 0)]

\* the document of a job that ran to completed on a payload of n records
CompletedJob(u, path, n) ==
  Merge(Merge(NewJob(u, path), ProcessingPatch), CompletedPatch(ScorerRecords(n), 0))

PagesAsked == (0 - MaxBelowZero)..MaxPageAsked
LimitsAsked == (0 - MaxBelowZero)..MaxLimitAsked

PageInit ==
  /\ \E n \in 0..MaxResults :
       jobs = [j \in JobIds |-> IF j = 1 THEN CompletedJob(1, UploadPath(1), n) ELSE NoJob]
  /\ files = {}
  /\ outFile = {}
  /\ pc = [j \in JobIds |-> IF j = 1 THEN "done" ELSE "none"]
  /\ cancelling = {}
  /\ response = NoResponse
  /\ now = 0
  /\ existsSyncOk = TRUE
  /\ transformRuns = <<>>
  /\ keywordRuns = <<>>
  /\ batch = NoBatch

PageQuery(j, u, page, limit) ==
  /\ GetResults(j, u, page, limit, "ok")
  /\ Sends(GetResultsAnswer(jobs, j, u, page, limit, "ok"))

PageNext ==
  \E j \in JobIds, u \in UserIds, page \in PagesAsked, limit \in LimitsAsked :
    PageQuery(j, u, page, limit)

PageSpec == PageInit /\ [][PageNext]_vars

\* C11: getResults asked by the owner of a completed job for page p >= 1 and
\* limit k >= 1 answers 200 with exactly the stored results at positions
\* (p-1)*k+1 through min(p*k, n), in stored order; none when (p-1)*k >= n.
PaginationExact ==
  [][\A j \in JobIds, u \in UserIds, p \in 1..MaxPageAsked, k \in 1..MaxLimitAsked :
       (PageQuery(j, u, p, k) /\ jobs[j] # NoJob /\ jobs[j].userId = u
          /\ jobs[j].status = "completed")
         => /\ response'.code = 200
            /\ response'.data.results =
                 SubSeq(jobs[j].results, (p - 1) * k + 1,
                        IF p * k < Len(jobs[j].results) THEN p * k
                        ELSE Len(jobs[j].results))
            /\ ((p - 1) * k >= Len(jobs[j].results) => response'.data.results = <<>>)]_vars

\* C11 witness: page 2 with limit 2 of a job with 3 stored results was answered
\* with one result, the third.
SecondPageOfThree ==
  /\ response.op = "getResults"
  /\ response.code = 200
  /\ Len(jobs[response.jobId].results) = 3
  /\ response.data.page = 2
  /\ response.data.limit = 2
  /\ response.data.results = <<jobs[response.jobId].results[3]>>

\* C12: every 200 answer of getResults reports a page >= 1 and a limit >= 1 and
\* carries the slice of the stored results that this page and limit select.
PaginationClamped ==
  (response.op = "getResults" /\ response.code = 200)
    => /\ response.data.page >= 1
       /\ response.data.limit >= 1
       /\ response.data.results =
            SubSeq(jobs[response.jobId].results,
                   (response.data.page - 1) * response.data.limit + 1,
                   IF response.data.page * response.data.limit
                        < Len(jobs[response.jobId].results)
                     THEN response.data.page * response.data.limit
                     ELSE Len(jobs[response.jobId].results))

\* --------------------------------------------------- the transform by itself
\* transformMLResults run on scorer outputs while time passes
RawInputs == {ScorerRecords(n) : n \in 0..MaxResults}

TransformRun(raw) ==
  /\ Len(transformRuns) < MaxRuns
  /\ transformRuns' =
       Append(transformRuns,
              [input |-> raw, output |-> transformMLResults(raw, now),
               sentimentDistribution |-> sentimentDistribution(raw),
               averageConfidence |-> averageConfidence(raw),
               averageSentiment |-> averageSentiment(raw, now)])
  /\ UNCHANGED <<jobs, files, outFile, pc, cancelling, response, now, existsSyncOk,
                 keywordRuns, batch>>

\* the clock advances
Tick ==
  /\ now < MaxTime
  /\ now' = now + 1
  /\ UNCHANGED <<jobs, files, outFile, pc, cancelling, response, existsSyncOk, transformRuns,
                 keywordRuns, batch>>

TransformNext == Tick \/ \E raw \in RawInputs : TransformRun(raw)

TransformSpec == Init /\ [][TransformNext]_vars

\* C13: as long as a job has not reached a terminal status (no terminal
\* timestamp is set before or after the step), no step lowers its progress.
ProgressNonDecreasing ==
  [][\A j \in JobIds :
       (/\ jobs[j] # NoJob
        /\ ~(jobs[j].completedAt \/ jobs[j].failedAt \/ jobs[j].cancelledAt)
        /\ jobs[j].status \notin TerminalStatuses
        /\ ~(jobs'[j].completedAt \/ jobs'[j].failedAt \/ jobs'[j].cancelledAt)
        /\ jobs'[j].status \notin TerminalStatuses)
         => jobs'[j].progress >= jobs[j].progress]_vars

\* C13 witness: a job that was never terminal is processing with progress 20.
ProcessingAtTwenty ==
  \E j \in JobIds :
    /\ jobs[j] # NoJob
    /\ jobs[j].status = "processing"
    /\ jobs[j].progress = 20
    /\ ~(jobs[j].completedAt \/ jobs[j].failedAt \/ jobs[j].cancelledAt)

\* C14: no step writes a lifecycle timestamp of a job that already carries it:
\* the update to processing finds startedAt unset, the updates to failed find
\* failedAt unset, the update to completed finds completedAt unset and a cancel
\* update that matches finds cancelledAt unset.
TimestampsWrittenOnce ==
  [][\A j \in JobIds :
       /\ ToProcessing(j, "ok") => ~jobs[j].startedAt
       /\ (\/ SetupFailedUpdate(j, "ok")
           \/ ResultsFailedUpdate(j, "ok")
           \/ \E file \in FileContents : CallbackError(j, file, "ok"))
            => ~jobs[j].failedAt
       /\ (pc[j] = "scorer" /\ pc'[j] = "completedCleanup") => ~jobs[j].completedAt
       /\ (\E u \in UserIds : CancelUpdate(j, u, "ok") /\ CancelFilter(jobs[j], u))
            => ~jobs[j].cancelledAt]_vars

\* C15: a job whose status is failed carries an errorMessage, and not the empty
\* one.
FailedHasMessage ==
  \A j \in JobIds :
    (jobs[j] # NoJob /\ jobs[j].status = "failed")
      => (jobs[j].errorMessage # NoMessage /\ jobs[j].errorMessage # "")

\* C15 witness: a job failed on an error of the scorer and carries its message.
FailedOnScorerError ==
  \E j \in JobIds :
    /\ jobs[j] # NoJob
    /\ jobs[j].status = "failed"
    /\ jobs[j].errorMessage = MLErrorMessage

\* C16: a job carries an errorMessage exactly when its status is failed.
MessageIffFailed ==
  \A j \in JobIds :
    jobs[j] # NoJob
      => ((jobs[j].errorMessage # NoMessage) <=> (jobs[j].status = "failed"))

\* C17: a job whose status is cancelled carries the cancellation message, and so
\* none of the scorer, parse or setup error messages.
CancelledHasCancelMessage ==
  \A j \in JobIds :
    (jobs[j] # NoJob /\ jobs[j].status = "cancelled")
      => /\ jobs[j].errorMessage = CancelledMessage
         /\ jobs[j].errorMessage \notin
              {MLErrorMessage, ResultsErrorMessage, SetupErrorMessage}

\* C17 witness: a job is cancelled, its cancel request is over, and its
\* background execution has gone on to launch the scorer.
CancelledWhileScorerRuns ==
  \E j \in JobIds :
    /\ jobs[j] # NoJob
    /\ jobs[j].status = "cancelled"
    /\ j \notin cancelling
    /\ pc[j] = "scorer"

\* C18: after every step a job that is not completed has no results, and a step
\* that changes a job's results leaves the job completed and found it not
\* completed and without results.
ResultsOnlyWhenCompleted ==
  [][\A j \in JobIds :
       /\ (jobs'[j] # NoJob /\ jobs'[j].status # "completed")
            => jobs'[j].results = <<>>
       /\ (jobs[j] # NoJob /\ jobs'[j].results # jobs[j].results)
            => /\ jobs'[j].status = "completed"
               /\ jobs[j].status # "completed"
               /\ jobs[j].results = <<>>]_vars

\* C18 witness: the scorer exited without error, the reading of its payload
\* failed, and the job is failed without results.
FailedWithoutResults ==
  \E j \in JobIds :
    /\ jobs[j] # NoJob
    /\ jobs[j].status = "failed"
    /\ jobs[j].errorMessage = ResultsErrorMessage
    /\ jobs[j].results = <<>>

\* C19: two jobs that exist at the same time have different input staging
\* paths.  (The output staging path results_<jobId>.json is named by the job id.)
StagingPathsExclusive ==
  \A i \in JobIds, j \in JobIds :
    (i # j /\ jobs[i] # NoJob /\ jobs[j] # NoJob)
      => jobs[i].filePath # jobs[j].filePath

\* C20: two runs of transformMLResults on the same scorer output give the same
\* results, every field included.
TransformDeterministic ==
  \A a \in 1..Len(transformRuns), b \in 1..Len(transformRuns) :
    transformRuns[a].input = transformRuns[b].input
      => transformRuns[a].output = transformRuns[b].output

\* ------------------------------------------------ the statistics by themselves
\* transformMLResults run once on every scorer output of up to MaxRecords
\* records: the sentiment a record carries is one of the three labels, absent
\* ("none") or another string ("mixed"); its confidence is absent (0) or 0.9
Sentiments == {"positive", "neutral", "negative", "none", "mixed"}
Confidences == {0, 90}
RawRecords == {Raw(sn, c) : sn \in Sentiments, c \in Confidences}
ScorerOutputs == UNION {[1..n -> RawRecords] : n \in 0..MaxRecords}

TransformOnce(raw) ==
  /\ transformRuns = <<>>
  /\ TransformRun(raw)

StatisticsNext == \E raw \in ScorerOutputs : TransformOnce(raw)

StatisticsSpec == Init /\ [][StatisticsNext]_vars

\* C21: in every run of the transform the distribution holds, for each of
\* positive, neutral and negative, the number of results whose label is that
\* value; a record without sentiment has the label neutral and counts there.
DistributionCountsLabels ==
  \A r \in 1..Len(transformRuns) :
    \A label \in {"positive", "neutral", "negative"} :
      transformRuns[r].sentimentDistribution[label] =
        Cardinality({i \in 1..Len(transformRuns[r].output) :
                       transformRuns[r].output[i].sentimentLabel = label})

\* C21 witness: a run on records labelled positive, positive, neutral, negative
\* gave the distribution 2, 1, 1.
DistributionTwoOneOne ==
  /\ Len(transformRuns) = 1
  /\ Len(transformRuns[1].output) = 4
  /\ transformRuns[1].output[1].sentimentLabel = "positive"
  /\ transformRuns[1].output[2].sentimentLabel = "positive"
  /\ transformRuns[1].output[3].sentimentLabel = "neutral"
  /\ transformRuns[1].output[4].sentimentLabel = "negative"
  /\ transformRuns[1].sentimentDistribution = [positive |-> 2, neutral |-> 1, negative |-> 1]

ChannelsCheckedInOrder ==
  [][\A j \in JobIds, file \in FileContents, stdout \in StdoutContents :
       LET chosen == IF file.kind = "json" THEN file ELSE stdout
       IN CallbackSuccess(j, file, stdout, "ok")
            => IF chosen.kind = "json" /\ chosen.success
                 THEN /\ jobs'[j].status = "completed"
                      /\ jobs'[j].results = transformMLResults(chosen.results, now)
                 ELSE pc'[j] = "resultsFailed"]_vars

\* C24: the update made when the scorer reported an error writes failed,
\* failedAt, the scorer error message and progress 0; a callback without error
\* whose payload cannot be read or parsed, or has success = false, or whose
\* update to completed throws, writes nothing and goes to the catch, whose
\* update writes failed, failedAt, the results error message and progress 50 on
\* a job without results.
FailurePolicy ==
  [][\A j \in JobIds :
       /\ (\E file \in FileContents : CallbackError(j, file, "ok"))
            => /\ jobs'[j].status = "failed"
               /\ jobs'[j].failedAt
               /\ jobs'[j].errorMessage = MLErrorMessage
               /\ jobs'[j].progress = 0
       /\ \A file \in FileContents, stdout \in StdoutContents, db \in DbOutcomes :
            LET chosen == IF file # Absent THEN file ELSE stdout
            IN (pc'[j] # pc[j]
                  /\ CallbackSuccess(j, file, stdout, db)
                  /\ (chosen.kind # "json" \/ ~chosen.success \/ db = "throws"))
                 => (jobs' = jobs /\ pc'[j] = "resultsFailed")
       /\ ResultsFailedUpdate(j, "ok")
            => /\ jobs'[j].status = "failed"
               /\ jobs'[j].failedAt
               /\ jobs'[j].errorMessage = ResultsErrorMessage
               /\ jobs'[j].progress = 50
               /\ jobs'[j].results = <<>>]_vars

\* C24 witness: a job failed in the catch of the callback: progress 50, the
\* results error message, failedAt, no results, its cleanup still to run.
FailedAtFifty ==
  \E j \in JobIds :
    /\ pc[j] = "failedCleanup"
    /\ jobs[j].status = "failed"
    /\ jobs[j].progress = 50
    /\ jobs[j].failedAt
    /\ jobs[j].errorMessage = ResultsErrorMessage
    /\ jobs[j].results = <<>>

\* C25: no background execution ends in a rejection nobody handles.
NoUnhandledRejection == \A j \in JobIds : pc[j] # "rejected"

\* C26: when the update to processing throws, or the launch of the scorer
\* throws, the setup catch is entered; from there the scorer is never launched;
\* and the update of the catch, when the store accepts it, writes failed with the
\* setup message, which is neither the scorer nor the results message.
SetupFailureHandled ==
  [][\A j \in JobIds :
       /\ (ToProcessing(j, "throws") \/ LaunchThrows(j)) => pc'[j] = "setupFailed"
       /\ pc[j] \in {"setupFailed", "setupUnlink"}
            => pc'[j] \in {"setupFailed", "setupUnlink", "done"}
       /\ SetupFailedUpdate(j, "ok")
            => /\ jobs'[j].status = "failed"
               /\ jobs'[j].failedAt
               /\ jobs'[j].errorMessage = SetupErrorMessage
               /\ jobs'[j].errorMessage \notin {MLErrorMessage, ResultsErrorMessage}]_vars

\* C26 witness: the update to processing threw (startedAt is unset) and the job
\* is failed with the setup message, its background execution over.
FailedInSetup ==
  \E j \in JobIds :
    /\ pc[j] = "done"
    /\ jobs[j].status = "failed"
    /\ jobs[j].errorMessage = SetupErrorMessage
    /\ ~jobs[j].startedAt

\* C27: once the preparation of the temp directory has failed, the scorer is not
\* launched and the next write of the background execution sets the job failed
\* with the setup message.
TempDirFailureFailsJob ==
  [][\A j \in JobIds :
       pc[j] = "tempDirFailed"
         => /\ pc'[j] # "scorer"
            /\ (jobs'[j] # jobs[j] /\ pc'[j] # pc[j])
                 => (jobs'[j].status = "failed"
                       /\ jobs'[j].errorMessage = SetupErrorMessage)]_vars

\* C28: once a job is completed or failed and its background execution has
\* ended, its output staging file does not exist.
OutputRemovedAfterExecution ==
  \A j \in JobIds :
    (jobs[j] # NoJob /\ pc[j] = "done" /\ jobs[j].status \in {"completed", "failed"})
      => j \notin outFile

\* C29: for a job cancelled before processing was written (cancelledAt set,
\* startedAt unset), no step sets the status to processing or launches the
\* scorer.
CancelStopsFutureWork ==
  [][\A j \in JobIds :
       (jobs[j] # NoJob /\ jobs[j].cancelledAt /\ ~jobs[j].startedAt)
         => (jobs'[j].status # "processing" /\ pc'[j] # "scorer")]_vars

MaxScored == 3
ScoredRecords ==
  {RawScored("positive", c, sc) : c \in {Unset, 0, 90}, sc \in {Unset, 8000}}
ScoredOutputs == UNION {[1..n -> ScoredRecords] : n \in 0..MaxScored}

AverageNext == \E raw \in ScoredOutputs : TransformOnce(raw)

AverageSpec == Init /\ [][AverageNext]_vars

\* C31: in every run of the transform, the score of each result is the
\* record's confidence times 100 when the record carries a confidence, else the
\* record's score when it carries one, else 0; its label is the record's
\* sentiment, neutral when it carries none.
ScoreDerivation ==
  \A r \in 1..Len(transformRuns) :
    \A i \in 1..Len(transformRuns[r].input) :
      LET item == transformRuns[r].input[i]
          result == transformRuns[r].output[i]
      IN /\ result.sentimentScore =
              IF item.confidence # Unset THEN item.confidence * 100
              ELSE IF item.score # Unset THEN item.score
              ELSE 0
         /\ result.sentimentLabel =
              IF item.sentiment = "none" THEN "neutral" ELSE item.sentiment

\* C32: in every run of the transform, the average confidence is the sum of
\* the confidences of the records that carry one (0 included) divided by their
\* number, and 0 when no record carries one.
AverageConfidenceOverCarried ==
  \A r \in 1..Len(transformRuns) :
    LET carried == SelectSeq(transformRuns[r].input, LAMBDA x : x.confidence # Unset)
        values == [i \in 1..Len(carried) |-> carried[i].confidence]
    IN SameNumber(transformRuns[r].averageConfidence,
                  IF Len(carried) > 0 THEN Quotient(Sum(values), Len(carried)) ELSE Zero)

\* C33: in every run of the transform, the average score times the number of
\* results is the sum of the results' scores, and the average score is the
\* number 0, with a divisor that is not 0, when there is no result.
AverageScoreIsMean ==
  \A r \in 1..Len(transformRuns) :
    LET results == transformRuns[r].output
        average == transformRuns[r].averageSentiment
        scores == [i \in 1..Len(results) |-> results[i].sentimentScore]
    IN /\ average.count # 0
       /\ Len(results) > 0 => SameNumber(average, Quotient(Sum(scores), Len(results)))
       /\ Len(results) = 0 => average = Zero

\* C33 witness: a run on three records of scores 90, 0 and 0 gave the average
\* 90 / 3.
AverageOfThree ==
  /\ Len(transformRuns) = 1
  /\ Len(transformRuns[1].output) = 3
  /\ transformRuns[1].output[1].sentimentScore = 9000
  /\ transformRuns[1].output[2].sentimentScore = 0
  /\ transformRuns[1].averageSentiment = Quotient(9000, 3)

\* ------------------------------------------------- the keywords by themselves
\* extractKeywords run once on every text made of up to MaxWords words of the
\* vocabulary separated by blanks, alone or after three other words: a word
\* with a capital, with a comma, of three letters, a stop word, a word with a
\* digit, and the two names an object inherits
MaxWords == 3
Vocabulary ==
  {<<"G", "o", "o", "d">>,
   <<"g", "o", "o", "d">>,
   <<"n", "i", "c", "e", ",">>,
   <<"f", "i", "n", "e">>,
   <<"b", "e", "d">>,
   <<"t", "h", "i", "s">>,
   <<"g", "o", "o", "2">>,
   <<"c", "o", "n", "s", "t", "r", "u", "c", "t", "o", "r">>,
   <<"_", "_", "p", "r", "o", "t", "o", "_", "_">>}
OtherWords == <<<<"b", "o", "l", "d">>, <<"c", "o", "o", "l">>, <<"h", "o", "s", "t">>>>

RECURSIVE Join(_)
Join(words) ==
  IF words = <<>> THEN <<>>
  ELSE IF Len(words) = 1 THEN Head(words)
  ELSE Head(words) \o <<" ">> \o Join(Tail(words))

Texts ==
  {Join(before \o words) :
     before \in {<<>>, OtherWords},
     words \in UNION {[1..n -> Vocabulary] : n \in 0..MaxWords}}

KeywordRun(text) ==
  /\ keywordRuns = <<>>
  /\ \E keywords \in extractKeywords(text) :
       keywordRuns' = <<[text |-> text, keywords |-> keywords]>>
  /\ UNCHANGED <<jobs, files, outFile, pc, cancelling, response, now, existsSyncOk,
                 transformRuns, batch>>

KeywordNext == \E text \in Texts : KeywordRun(text)

KeywordSpec == Init /\ [][KeywordNext]_vars

\* C34: in every run of extractKeywords the keywords are at most 5, distinct,
\* each a word of the text that passes the filters (lowercase, longer than 3
\* characters, no digit, no stop word); they come by descending number of
\* occurrences, equal numbers in the order of first occurrence; and no word that
\* passes the filters and occurs more often than a keyword is left out.
KeywordsRanked ==
  \A r \in 1..Len(keywordRuns) :
    LET words == FilteredWords(keywordRuns[r].text)
        keywords == keywordRuns[r].keywords
        Occurrences(word) == Cardinality({i \in 1..Len(words) : words[i] = word})
        First(word) == CHOOSE i \in 1..Len(words) :
                         words[i] = word /\ \A h \in 1..(i - 1) : words[h] # word
        Passing == {words[i] : i \in 1..Len(words)}
        Returned == {keywords[i] : i \in 1..Len(keywords)}
    IN /\ Len(keywords) <= 5
       /\ Cardinality(Returned) = Len(keywords)
       /\ Returned \subseteq Passing
       /\ \A a, b \in 1..Len(keywords) :
            a < b => \/ Occurrences(keywords[a]) > Occurrences(keywords[b])
                     \/ /\ Occurrences(keywords[a]) = Occurrences(keywords[b])
                        /\ First(keywords[a]) < First(keywords[b])
       /\ \A word \in Passing \ Returned, keyword \in Returned :
            Occurrences(word) <= Occurrences(keyword)

InputKeptWhileActive ==
  [][\A j \in JobIds :
       (/\ jobs[j] # NoJob
        /\ jobs[j].status \in {"pending", "processing"}
        /\ ~jobs[j].cancelledAt
        /\ jobs[j].filePath \in files)
         => jobs[j].filePath \in files']_vars

\* C37: no step changes the records of two jobs: a step that writes the record
\* of one job leaves the record of every other job as it was.
JobIsolation ==
  [][\A a \in JobIds, b \in JobIds :
       (a # b /\ jobs'[a] # jobs[a]) => jobs'[b] = jobs[b]]_vars

\* C37 witness: of two jobs one is completed with its results and the other is
\* still pending, its background execution not yet at its first update.
OneCompletedOnePending ==
  \E a \in JobIds, b \in JobIds :
    /\ jobs[a] # NoJob /\ jobs[b] # NoJob
    /\ jobs[a].status = "completed"
    /\ jobs[a].results # <<>>
    /\ jobs[b].status = "pending"
    /\ jobs[b].progress = 0
    /\ pc[b] = "toProcessing"

\* the positions of a background execution after its terminal update
AfterTerminalUpdate ==
  {"errorUnlink", "completedCleanup", "notify", "failedCleanup", "setupUnlink",
   "rejected", "done"}

\* C38: a background execution reaches the launch of the scorer only from its
\* start and never comes back to its start; it writes completed or failed only
\* from a position before its terminal update, and after that update it writes
\* the job no more and stays after it.
OneLaunchOneTerminalUpdate ==
  [][\A j \in JobIds :
       /\ (pc'[j] = "scorer" /\ pc[j] # "scorer")
            => pc[j] \in {"toProcessing", "tempDirFailed"}
       /\ pc[j] \notin {"none", "toProcessing", "tempDirFailed"}
            => pc'[j] \notin {"none", "toProcessing", "tempDirFailed"}
       /\ (pc'[j] # pc[j] /\ jobs'[j] # jobs[j]
             /\ jobs'[j].status \in {"completed", "failed"})
            => /\ pc[j] \notin AfterTerminalUpdate
               /\ pc'[j] \in AfterTerminalUpdate
       /\ pc[j] \in AfterTerminalUpdate
            => /\ pc'[j] \in AfterTerminalUpdate
               /\ pc'[j] # pc[j] => jobs'[j] = jobs[j]]_vars

\* C38 witness: a background execution is over whose scorer ran, whose
\* completion callback threw and whose catch wrote failed, the one terminal
\* update of the job.
FailedOnceAfterScorer ==
  \E j \in JobIds :
    /\ pc[j] = "done"
    /\ jobs[j].status = "failed"
    /\ jobs[j].startedAt
    /\ jobs[j].errorMessage = ResultsErrorMessage
    /\ ~jobs[j].completedAt

\* C39: for every scorer output whose records carry positive, neutral, negative
\* or no sentiment, the update to completed made from it has three distribution
\* counts that sum to totalLines, totalLines is the number of results, and the
\* i-th result has lineNumber i and is the transform of the i-th record.
CompletedCountsAgree ==
  \A r \in 1..Len(transformRuns) :
    LET raw == transformRuns[r].input
        patch == CompletedPatch(raw, now)
    IN (\A i \in 1..Len(raw) :
          raw[i].sentiment \in {"positive", "neutral", "negative", "none"})
         => /\ patch.sentimentDistribution.positive
                 + patch.sentimentDistribution.neutral
                 + patch.sentimentDistribution.negative = patch.totalLines
            /\ patch.totalLines = Len(patch.results)
            /\ Len(patch.results) = Len(raw)
            /\ \A i \in 1..Len(raw) :
                 /\ patch.results[i].lineNumber = i
                 /\ patch.results[i].confidence = OrZero(raw[i].confidence)
                 /\ patch.results[i].sentimentLabel =
                      IF raw[i].sentiment = "none" THEN "neutral" ELSE raw[i].sentiment

\* C39 witness: a run on four records with the sentiments negative, none,
\* positive, neutral: four results numbered 1 to 4, counts 1, 2 and 1.
FourRecordsCounted ==
  /\ Len(transformRuns) = 1
  /\ Len(transformRuns[1].input) = 4
  /\ transformRuns[1].input[1].sentiment = "negative"
  /\ transformRuns[1].input[2].sentiment = "none"
  /\ transformRuns[1].input[3].sentiment = "positive"
  /\ transformRuns[1].input[4].sentiment = "neutral"
  /\ transformRuns[1].output[4].lineNumber = 4
  /\ CompletedPatch(transformRuns[1].input, now).totalLines = 4
  /\ CompletedPatch(transformRuns[1].input, now).sentimentDistribution
       = [positive |-> 1, neutral |-> 2, negative |-> 1]

====
